---- MODULE Spec2Model ----
(***************************************************************************)
(* Model of prettymaps/fetch.py: query classifier -> boundary/perimeter    *)
(* builder -> per-layer fetch-and-clip -> dictionary of named results.     *)
(*                                                                         *)
(* Geometry is modelled on an integer grid.  A polygon region is a finite  *)
(* set of unit cells <<i, j>> (the cell [i,i+1) x [j,j+1)); a point is a   *)
(* grid vertex <<x, y>>.  Distances are Chebyshev distances, so buffer(d)  *)
(* of a region is its dilation (d >= 0) or erosion (d < 0) by a square of  *)
(* half-width d.  A GeoDataFrame is a record [crs, rows] whose rows are    *)
(* records [idx, geometry].  Projection to the local metric CRS and back   *)
(* is a translation by Off, so that a missing or doubled (un)projection    *)
(* changes the result.  The calls that reach the network (ox.geocode,      *)
(* ox.geocode_to_gdf, ox.graph_from_polygon, ox.geometries_from_polygon)   *)
(* are oracles: their outcome, a value or an error, is an input of the     *)
(* action.                                                                 *)
(***************************************************************************)
EXTENDS Integers, Sequences, FiniteSets, TLC

VARIABLES op, args, ret, calls, after

vars == <<op, args, ret, calls, after>>

(* ------------------------------ bounds -------------------------------- *)
MaxLen == 3
MaxRadius == 2
MaxDilate == 1
MaxLayers == 2

(* --------------------------- python values ---------------------------- *)
\* Optional values: None is the empty set, a value v is {v}.
None == {}

Some(v) == {v}

Val(o) == CHOOSE v \in o : TRUE

\* dict.get(key, default) on a keyword dictionary (a function on its keys).
Get(d, k, default) == IF k \in DOMAIN d THEN d[k] ELSE default

\* The dictionary d without key k.
Without(d, k) == [x \in (DOMAIN d) \ {k} |-> d[x]]

EmptyDict == [x \in {} |-> 0]

Ok(v) == [ok |-> TRUE, val |-> v]

Raise(e) == [ok |-> FALSE, err |-> e]

(* ------------------------------ queries ------------------------------- *)
UpperCase == {"A", "B", "C", "D", "E", "F", "G", "H", "I", "J", "K", "L", "M",
              "N", "O", "P", "Q", "R", "S", "T", "U", "V", "W", "X", "Y", "Z"}

Digits == {"0", "1", "2", "3", "4", "5", "6", "7", "8", "9"}

Alphabet == {"R", "7", "a"}

Strings == UNION {[1..n -> Alphabet] : n \in 0..MaxLen}

StrQuery(s) == [kind |-> "str", s |-> s]

TupleQuery(lat, lon) == [kind |-> "tuple", pt |-> <<lat, lon>>]

GdfQuery(g) == [kind |-> "GeoDataFrame", gdf |-> g]

\* re.match("[A-Z][0-9]+", s): the pattern matches a PREFIX of s.
ReMatch(s) ==
    \E k \in 2..Len(s) :
        /\ s[1] \in UpperCase
        /\ \A i \in 2..k : s[i] \in Digits

parse_query(query) ==
    IF query.kind = "GeoDataFrame" THEN "polygon"
    ELSE IF query.kind = "tuple" THEN "coordinates"
    ELSE IF ReMatch(query.s) THEN "osmid"
    ELSE "address"

(* ------------------------------ geometry ------------------------------ *)
Off == <<10, 20>>

Abs(n) == IF n < 0 THEN -n ELSE n

Min(a, b) == IF a < b THEN a ELSE b

Max(a, b) == IF a < b THEN b ELSE a

Translate(S, v) == {<<c[1] + v[1], c[2] + v[2]>> : c \in S}

\* shapely buffer(d) of a polygon region.
Buffer(S, d) ==
    IF d >= 0
    THEN {<<c[1] + a, c[2] + b>> : c \in S, a \in (-d)..d, b \in (-d)..d}
    ELSE {c \in S : \A a \in d..(-d), b \in d..(-d) : <<c[1] + a, c[2] + b>> \in S}

\* shapely Point(p).buffer(r): the disc of radius r around the vertex p.
PointBuffer(p, r) ==
    {<<i, j>> : i \in (p[1] - r)..(p[1] + r - 1), j \in (p[2] - r)..(p[2] + r - 1)}

\* Polygon([(x-dx,y-dy),(x+dx,y-dy),(x+dx,y+dy),(x-dx,y+dy)])
Rectangle(p, dx, dy) ==
    {<<i, j>> : i \in Min(p[1] - dx, p[1] + dx)..(Max(p[1] - dx, p[1] + dx) - 1),
                j \in Min(p[2] - dy, p[2] + dy)..(Max(p[2] - dy, p[2] + dy) - 1)}

\* shapely.affinity.rotate(rectangle, angle) about its centre, for the
\* quarter turns the grid can express.
RotatedRectangle(p, dx, dy, rotation) ==
    IF rotation % 180 = 0 THEN Rectangle(p, dx, dy) ELSE Rectangle(p, dy, dx)

(* --------------------------- GeoDataFrames ---------------------------- *)
Row(i, g) == [idx |-> i, geometry |-> g]

Gdf(crs, rows) == [crs |-> crs, rows |-> rows]

\* gdf.geometry = geoms: the frame with its geometry column replaced.
SetGeometry(gdf, geoms) ==
    [gdf EXCEPT !.rows = [i \in DOMAIN gdf.rows |->
                            [gdf.rows[i] EXCEPT !.geometry = geoms[i]]]]

\* ox.project_gdf: to the local metric CRS.
project_gdf(gdf) ==
    [SetGeometry(gdf, [i \in DOMAIN gdf.rows |-> Translate(gdf.rows[i].geometry, Off)])
        EXCEPT !.crs = "UTM"]

\* GeoDataFrame.to_crs(4326)
to_crs(gdf) ==
    IF gdf.crs = "UTM"
    THEN [SetGeometry(gdf, [i \in DOMAIN gdf.rows |->
                              Translate(gdf.rows[i].geometry, <<-Off[1], -Off[2]>>)])
            EXCEPT !.crs = "EPSG:4326"]
    ELSE gdf

\* GeoSeries.buffer(d), row by row
buffer(gdf, d) ==
    SetGeometry(gdf, [i \in DOMAIN gdf.rows |-> Buffer(gdf.rows[i].geometry, d)])

unary_union(gdf) == UNION {gdf.rows[i].geometry : i \in DOMAIN gdf.rows}

(* ------------------------- library oracles ---------------------------- *)
\* A (lat, lon) pair the geocoder can answer with.
GeocodedPoints == {<<2, 3>>}

\* Regions the geocoder can answer with: one row, a non-empty polygon.
GeocodedGdfs ==
    {Gdf("EPSG:4326", <<Row(0, PointBuffer(<<2, 2>>, 2))>>),
     Gdf("EPSG:4326", <<Row(0, {<<0, 0>>, <<1, 0>>})>>)}

\* ox.geocode(query): a point, or the library's error.  Only a string can
\* be geocoded.
GeocodeOutcomes(query) ==
    IF query.kind = "str"
    THEN {Ok(p) : p \in GeocodedPoints} \cup {Raise("geocode")}
    ELSE {Raise("geocode")}

\* ox.geocode_to_gdf(query, by_osmid): a region, or the library's error.
GeocodeToGdfOutcomes(query) ==
    IF query.kind = "str"
    THEN {Ok(g) : g \in GeocodedGdfs} \cup {Raise("geocode_to_gdf")}
    ELSE {Raise("geocode_to_gdf")}

\* The outcomes of the geocoder calls of one get_perimeter.  The call the
\* chosen branch does not make has the error outcome.
Oracles(query, boundary) ==
    [geocode : IF boundary THEN GeocodeOutcomes(query) ELSE {Raise("geocode")},
     geocode_to_gdf : IF boundary THEN {Raise("geocode_to_gdf")}
                      ELSE GeocodeToGdfOutcomes(query)]

(* ------------------------------ perimeter ----------------------------- *)
\* Python truthiness of an optional number: None and 0 are false.
Truthy(n) == n # None /\ Val(n) # 0

\* The result of a function together with the library calls it made.
Done(out, cs) == [out |-> out, calls |-> cs]

get_boundary(query, radius, ratio, circle, rotation, orc) ==
    LET coords == parse_query(query) = "coordinates"
        cs == IF coords THEN <<>> ELSE <<"geocode">>
        point == IF coords THEN Ok(query.pt) ELSE orc.geocode
    IN  IF ~point.ok THEN Done(point, cs)
        ELSE
          LET \* Point(point[::-1]) in EPSG:4326, then ox.project_gdf
              xy == <<point.val[2] + Off[1], point.val[1] + Off[2]>>
              dx == radius * ratio
              dy == radius
              shape == IF circle
                       THEN PointBuffer(xy, radius)
                       ELSE RotatedRectangle(xy, dx, dy, rotation)
          IN  Done(Ok(to_crs(Gdf("UTM", <<Row(0, shape)>>))), cs)

\* get_perimeter with the dilation applied with the wrong sign.
get_perimeter_negated(query, radius, ratio, by_osmid, circle, dilate, rotation, orc) ==
    LET src ==
          IF Truthy(radius)
          THEN get_boundary(query, Val(radius), ratio, circle, rotation, orc)
          ELSE IF parse_query(query) = "polygon"
               THEN Done(Ok(query.gdf), <<>>)
               ELSE Done(orc.geocode_to_gdf, <<"geocode_to_gdf">>)
    IN  IF ~src.out.ok THEN src
        ELSE
          LET projected == project_gdf(src.out.val)
              dilated == IF dilate # None
                         THEN buffer(projected, -Val(dilate))
                         ELSE projected
          IN  Done(Ok(to_crs(dilated)), src.calls)

\* get_perimeter testing "radius is not None" in place of "radius".
get_perimeter_not_none(query, radius, ratio, by_osmid, circle, dilate, rotation, orc) ==
    LET src ==
          IF radius # None
          THEN get_boundary(query, Val(radius), ratio, circle, rotation, orc)
          ELSE IF parse_query(query) = "polygon"
               THEN Done(Ok(query.gdf), <<>>)
               ELSE Done(orc.geocode_to_gdf, <<"geocode_to_gdf">>)
    IN  IF ~src.out.ok THEN src
        ELSE
          LET projected == project_gdf(src.out.val)
              dilated == IF dilate # None
                         THEN buffer(projected, Val(dilate))
                         ELSE projected
          IN  Done(Ok(to_crs(dilated)), src.calls)

get_perimeter(query, radius, ratio, by_osmid, circle, dilate, rotation, orc) ==
    LET src ==
          IF Truthy(radius)
          THEN get_boundary(query, Val(radius), ratio, circle, rotation, orc)
          ELSE IF parse_query(query) = "polygon"
               THEN Done(Ok(query.gdf), <<>>)
               ELSE Done(orc.geocode_to_gdf, <<"geocode_to_gdf">>)
    IN  IF ~src.out.ok THEN src
        ELSE
          LET projected == project_gdf(src.out.val)
              dilated == IF dilate # None
                         THEN buffer(projected, Val(dilate))
                         ELSE projected
          IN  Done(Ok(to_crs(dilated)), src.calls)

(* -------------------------------- layers ------------------------------ *)
\* shapely box(*region.bounds): the bounding box of a region.
box(S) ==
    IF S = {} THEN {}
    ELSE LET xs == {c[1] : c \in S}
             ys == {c[2] : c \in S}
             minx == CHOOSE m \in xs : \A x \in xs : m <= x
             maxx == CHOOSE m \in xs : \A x \in xs : m >= x
             miny == CHOOSE m \in ys : \A y \in ys : m <= y
             maxy == CHOOSE m \in ys : \A y \in ys : m >= y
         IN  {<<i, j>> : i \in minx..maxx, j \in miny..maxy}

\* The perimeter with dilation and tolerance applied, as one region.
perimeter_with_tolerance(perimeter, dilate, tolerance) ==
    Buffer(unary_union(to_crs(buffer(project_gdf(perimeter), dilate + tolerance))), 0)

\* The library call that fetches the layer.
FetchCall(layer, osmid) ==
    IF layer \in {"streets", "railway", "waterway"} THEN "graph_from_polygon"
    ELSE IF layer = "coastline" THEN "geometries_from_polygon"
    ELSE IF osmid = None THEN "geometries_from_polygon"
    ELSE "geocode_to_gdf"

\* gdf.geometry = gdf.geometry.intersection(region)
intersection(gdf, region) ==
    SetGeometry(gdf, [i \in DOMAIN gdf.rows |-> gdf.rows[i].geometry \cap region])

\* gdf.drop(gdf[gdf.geometry.is_empty].index): drops every row that carries
\* the index label of a row with an empty geometry.
drop_empty(gdf) ==
    LET labels == {gdf.rows[i].idx : i \in {j \in DOMAIN gdf.rows :
                                              gdf.rows[j].geometry = {}}}
    IN  [gdf EXCEPT !.rows = SelectSeq(gdf.rows, LAMBDA r : r.idx \notin labels)]

\* get_gdf without the intersection with the perimeter.
get_gdf_no_clip(layer, perimeter, kwargs, fetch) ==
    LET osmid == Get(kwargs, "osmid", None)
    IN  IF layer \in {"hillshade", "level_curves"}
        THEN Done(Raise("NameError"), <<>>)
        ELSE IF ~fetch.ok
        THEN Done(fetch, <<FetchCall(layer, osmid)>>)
        ELSE Done(Ok(drop_empty(fetch.val)), <<FetchCall(layer, osmid)>>)

\* get_gdf raising when the clipped frame has no rows left.
get_gdf_raise_empty(layer, perimeter, kwargs, fetch) ==
    LET given == Get(kwargs, "dilate", Some(0))
        dilate == IF given = None THEN 0 ELSE Val(given)
        tolerance == Get(kwargs, "perimeter_tolerance", 0)
        osmid == Get(kwargs, "osmid", None)
        region == perimeter_with_tolerance(perimeter, dilate, tolerance)
    IN  IF layer \in {"hillshade", "level_curves"}
        THEN Done(Raise("NameError"), <<>>)
        ELSE IF ~fetch.ok
        THEN Done(fetch, <<FetchCall(layer, osmid)>>)
        ELSE IF drop_empty(intersection(fetch.val, region)).rows = <<>>
        THEN Done(Raise("ValueError"), <<FetchCall(layer, osmid)>>)
        ELSE Done(Ok(drop_empty(intersection(fetch.val, region))),
                  <<FetchCall(layer, osmid)>>)

\* get_gdf answering a failed fetch with an empty frame.
get_gdf_swallow(layer, perimeter, kwargs, fetch) ==
    LET given == Get(kwargs, "dilate", Some(0))
        dilate == IF given = None THEN 0 ELSE Val(given)
        tolerance == Get(kwargs, "perimeter_tolerance", 0)
        osmid == Get(kwargs, "osmid", None)
        region == perimeter_with_tolerance(perimeter, dilate, tolerance)
    IN  IF layer \in {"hillshade", "level_curves"}
        THEN Done(Raise("NameError"), <<>>)
        ELSE IF ~fetch.ok
        THEN Done(Ok(Gdf("EPSG:4326", <<>>)), <<FetchCall(layer, osmid)>>)
        ELSE Done(Ok(drop_empty(intersection(fetch.val, region))),
                  <<FetchCall(layer, osmid)>>)

\* get_gdf buffering the perimeter by dilate alone.
get_gdf_no_tolerance(layer, perimeter, kwargs, fetch) ==
    LET given == Get(kwargs, "dilate", Some(0))
        dilate == IF given = None THEN 0 ELSE Val(given)
        osmid == Get(kwargs, "osmid", None)
        region == perimeter_with_tolerance(perimeter, dilate, 0)
    IN  IF layer \in {"hillshade", "level_curves"}
        THEN Done(Raise("NameError"), <<>>)
        ELSE IF ~fetch.ok
        THEN Done(fetch, <<FetchCall(layer, osmid)>>)
        ELSE Done(Ok(drop_empty(intersection(fetch.val, region))),
                  <<FetchCall(layer, osmid)>>)

\* kwargs is the layer's configuration, fetch the outcome of the library
\* call that fetches the layer.
get_gdf(layer, perimeter, kwargs, fetch) ==
    LET given == Get(kwargs, "dilate", Some(0))
        dilate == IF given = None THEN 0 ELSE Val(given)
        tolerance == Get(kwargs, "perimeter_tolerance", 0)
        osmid == Get(kwargs, "osmid", None)
        region == perimeter_with_tolerance(perimeter, dilate, tolerance)
    IN  IF layer \in {"hillshade", "level_curves"}
        THEN \* get_hillshade, get_level_curves, mask_elevation and
             \* get_elevation are neither defined nor imported
             Done(Raise("NameError"), <<>>)
        ELSE IF ~fetch.ok
        THEN Done(fetch, <<FetchCall(layer, osmid)>>)
        ELSE Done(Ok(drop_empty(intersection(fetch.val, region))),
                  <<FetchCall(layer, osmid)>>)

\* Frames the library can answer a fetch with (EPSG:4326, unique index).
FetchedSamples ==
    <<Gdf("EPSG:4326", <<Row(0, {<<1, 1>>, <<2, 1>>}),
                         Row(1, {<<3, 1>>, <<4, 1>>}),
                         Row(2, {<<3, 3>>, <<4, 4>>})>>),
      Gdf("EPSG:4326", <<Row(7, {<<3, 3>>})>>),
      Gdf("EPSG:4326", <<Row(3, {<<3, 2>>}), Row(4, {<<0, 0>>, <<0, 1>>})>>),
      Gdf("EPSG:4326", <<Row(5, {<<2, 0>>, <<2, 1>>})>>)>>

\* The outcome of a fetch: sample k, or for k = 0 the library's error.
Fetched(k) == IF k = 0 THEN Raise("fetch") ELSE Ok(FetchedSamples[k])

\* A fetch over a bounding box answers with features that meet the box, or
\* with the library's error; a fetch by OSM id answers with any frame.
FetchOutcomes(layer, perimeter, kwargs) ==
    LET given == Get(kwargs, "dilate", Some(0))
        dilate == IF given = None THEN 0 ELSE Val(given)
        bbox == box(perimeter_with_tolerance(perimeter, dilate,
                                             Get(kwargs, "perimeter_tolerance", 0)))
        byBox == FetchCall(layer, Get(kwargs, "osmid", None)) # "geocode_to_gdf"
    IN  {k \in DOMAIN FetchedSamples :
            byBox => \A i \in DOMAIN FetchedSamples[k].rows :
                        FetchedSamples[k].rows[i].geometry \cap bbox # {}}
            \cup {0}

(* ------------------------------- get_gdfs ----------------------------- *)
\* A layers_dict is the sequence of its items, in insertion order.
Item(layer, kwargs) == [layer |-> layer, kwargs |-> kwargs]

Keys(layers_dict) == {layers_dict[i].layer : i \in DOMAIN layers_dict}

Lookup(layers_dict, layer) ==
    layers_dict[CHOOSE i \in DOMAIN layers_dict : layers_dict[i].layer = layer].kwargs

\* dict.pop(key) with no default, on the dictionary d.
pop(d, k) == IF k \in DOMAIN d THEN Ok(Without(d, k)) ELSE Raise("KeyError")

\* The dictionary comprehension of get_gdfs from item i on: gdfs holds the
\* layers fetched so far, cs the library calls made so far.  The first
\* get_gdf that raises ends the comprehension.
RECURSIVE comprehension(_, _, _, _, _, _)
comprehension(layers_dict, perimeter, fetches, i, gdfs, cs) ==
    IF i > Len(layers_dict) THEN Done(Ok(gdfs), cs)
    ELSE IF layers_dict[i].layer = "perimeter"
    THEN comprehension(layers_dict, perimeter, fetches, i + 1, gdfs, cs)
    ELSE LET r == get_gdf(layers_dict[i].layer, perimeter, layers_dict[i].kwargs,
                          Fetched(fetches[i]))
         IN  IF ~r.out.ok THEN Done(r.out, cs \o r.calls)
             ELSE comprehension(layers_dict, perimeter, fetches, i + 1,
                                gdfs @@ (layers_dict[i].layer :> r.out.val),
                                cs \o r.calls)

\* Lines 210-223 of get_gdfs: the perimeter keywords are a deep copy of
\* layers_dict["perimeter"] with "dilate" popped; then get_perimeter.
gdfs_perimeter(query, layers_dict, radius, ratio, dilate, rotation, orc) ==
    LET popped == IF "perimeter" \in Keys(layers_dict)
                  THEN pop(Lookup(layers_dict, "perimeter"), "dilate")
                  ELSE Ok(EmptyDict)
    IN  IF ~popped.ok THEN Done(popped, <<>>)
        ELSE get_perimeter(query, radius, ratio,
                           Get(popped.val, "by_osmid", FALSE),
                           Get(popped.val, "circle", FALSE),
                           dilate, rotation, orc)

\* get_gdfs building the result without its "perimeter" entry.
get_gdfs_no_perimeter(query, layers_dict, radius, ratio, dilate, rotation, orc, fetches) ==
    LET p == gdfs_perimeter(query, layers_dict, radius, ratio, dilate, rotation, orc)
    IN  IF ~p.out.ok
        THEN [out |-> p.out, calls |-> p.calls, layers_dict |-> layers_dict]
        ELSE
          LET r == comprehension(layers_dict, p.out.val, fetches, 1,
                                 [k \in {} |-> p.out.val], p.calls)
          IN  [out |-> r.out, calls |-> r.calls, layers_dict |-> layers_dict]

\* The result carries, besides the outcome and the library calls, the
\* caller's layers_dict as the call leaves it (only the deep copy is changed).
get_gdfs(query, layers_dict, radius, ratio, dilate, rotation, orc, fetches) ==
    LET p == gdfs_perimeter(query, layers_dict, radius, ratio, dilate, rotation, orc)
    IN  IF ~p.out.ok
        THEN [out |-> p.out, calls |-> p.calls, layers_dict |-> layers_dict]
        ELSE
          LET r == comprehension(layers_dict, p.out.val, fetches, 1,
                                 "perimeter" :> p.out.val, p.calls)
          IN  [out |-> r.out, calls |-> r.calls, layers_dict |-> layers_dict]

(* ------------------------------- inputs ------------------------------- *)
\* User-supplied polygon regions: a square, an L made of two adjoining
\* blocks in two rows, and a strip one cell wide.
PolygonSamples ==
    {Gdf("EPSG:4326", <<Row(0, PointBuffer(<<2, 2>>, 2))>>),
     Gdf("EPSG:4326", <<Row(0, Rectangle(<<1, 2>>, 1, 2)),
                        Row(1, Rectangle(<<3, 1>>, 1, 1))>>),
     Gdf("EPSG:4326", <<Row(0, {<<0, 0>>, <<1, 0>>, <<2, 0>>})>>)}

Queries ==
    {StrQuery(s) : s \in Strings}
        \cup {TupleQuery(1, 2)}
        \cup {GdfQuery(g) : g \in PolygonSamples}

\* A query of each kind, for the operations that do not look into strings.
QuerySamples ==
    {StrQuery(<<"R", "7">>), StrQuery(<<"a", "a">>), TupleQuery(1, 2)}
        \cup {GdfQuery(g) : g \in PolygonSamples}

Radii == {None} \cup {Some(r) : r \in 0..MaxRadius}

Ratios == {1, 2}

Rotations == {0, 90}

Dilates == {None} \cup {Some(d) : d \in (-MaxDilate)..MaxDilate}

LayerNames == {"hillshade", "level_curves", "streets", "coastline", "building"}

Tolerances == 0..MaxDilate

Osmids == {None, Some(<<"R", "7">>)}

Kwargs(keys, dilate, tolerance, osmid) ==
    [k \in keys |-> CASE k = "dilate" -> dilate
                      [] k = "perimeter_tolerance" -> tolerance
                      [] k = "osmid" -> osmid]

LayerKwargs ==
    {Kwargs(keys, dilate, tolerance, osmid) :
        keys \in SUBSET {"dilate", "perimeter_tolerance", "osmid"},
        dilate \in Dilates, tolerance \in Tolerances, osmid \in Osmids}

\* Perimeters handed to get_gdf: the polygon samples and an empty region.
PerimeterSamples == PolygonSamples \cup {Gdf("EPSG:4326", <<Row(0, {})>>)}

\* The layers_dict arguments of get_gdfs: up to MaxLayers items with
\* distinct names.
PerimeterKwargs ==
    {EmptyDict,
     [k \in {"dilate"} |-> Some(1)],
     [k \in {"dilate", "circle"} |-> IF k = "dilate" THEN None ELSE TRUE]}

ItemChoices ==
    {Item("perimeter", kw) : kw \in PerimeterKwargs}
        \cup {Item("streets", kw) : kw \in {EmptyDict,
                                             Kwargs({"dilate", "perimeter_tolerance"},
                                                    Some(1), 1, None)}}
        \cup {Item("building", Kwargs({"dilate"}, None, 0, None)),
              Item("hillshade", EmptyDict)}

LayersDicts ==
    UNION {{d \in [1..n -> ItemChoices] :
              \A i, j \in 1..n : d[i].layer = d[j].layer => i = j} :
           n \in 0..MaxLayers}

GdfsQueries ==
    {StrQuery(<<"R", "7">>), TupleQuery(1, 2),
     GdfQuery(Gdf("EPSG:4326", <<Row(0, PointBuffer(<<2, 2>>, 2))>>)),
     GdfQuery(Gdf("EPSG:4326", <<Row(0, Rectangle(<<1, 2>>, 1, 2)),
                                 Row(1, Rectangle(<<3, 1>>, 1, 1))>>))}

GdfsRadii == {None, Some(MaxRadius)}

GdfsRatios == Ratios

GdfsDilates == {None, Some(MaxDilate), Some(-MaxDilate)}

\* The outcomes of the fetches of get_gdfs, one per item of layers_dict; an
\* item that is never fetched has the error outcome.
Fetches(layers_dict, perimeter) ==
    UNION {{f \in [DOMAIN layers_dict -> 0..Len(FetchedSamples)] :
               \A i \in DOMAIN layers_dict : f[i] \in allowed[i]} :
           allowed \in {[i \in DOMAIN layers_dict |->
               IF perimeter.ok /\ layers_dict[i].layer \notin {"perimeter", "hillshade"}
               THEN FetchOutcomes(layers_dict[i].layer, perimeter.val,
                                  layers_dict[i].kwargs)
               ELSE {0}]}}

(* -------------------------------- spec -------------------------------- *)
\* One behaviour is one call into the module: op names the function called,
\* args its arguments (and the outcomes of the library calls it makes), ret
\* what it returned or raised, calls the library calls it made, in order,
\* after the caller's layers_dict as the call left it.
Init ==
    /\ op = "none"
    /\ args = EmptyDict
    /\ ret = Raise("none")
    /\ calls = <<>>
    /\ after = EmptyDict

CallParseQuery ==
    /\ op = "none"
    /\ \E query \in Queries :
        /\ op' = "parse_query"
        /\ args' = [query |-> query]
        /\ ret' = Ok(parse_query(query))
        /\ calls' = <<>>
        /\ after' = EmptyDict

CallGetPerimeter ==
    /\ op = "none"
    /\ \E query \in QuerySamples, radius \in Radii, ratio \in Ratios,
       by_osmid \in BOOLEAN, circle \in BOOLEAN, dilate \in Dilates,
       rotation \in Rotations :
      \E orc \in Oracles(query, Truthy(radius)) :
        \E r \in {get_perimeter(query, radius, ratio, by_osmid, circle, dilate,
                              rotation, orc)} :
            /\ op' = "get_perimeter"
            /\ args' = [query |-> query, radius |-> radius, ratio |-> ratio,
                        by_osmid |-> by_osmid, circle |-> circle,
                        dilate |-> dilate, rotation |-> rotation, orc |-> orc]
            /\ ret' = r.out
            /\ calls' = r.calls
            /\ after' = EmptyDict

CallGetGdf ==
    /\ op = "none"
    /\ \E layer \in LayerNames, perimeter \in PerimeterSamples, kwargs \in LayerKwargs :
      \E fetch \in FetchOutcomes(layer, perimeter, kwargs) :
        \E r \in {get_gdf(layer, perimeter, kwargs, Fetched(fetch))} :
            /\ op' = "get_gdf"
            /\ args' = [layer |-> layer, perimeter |-> perimeter,
                        kwargs |-> kwargs, fetch |-> fetch]
            /\ ret' = r.out
            /\ calls' = r.calls
            /\ after' = EmptyDict

CallGetGdfs ==
    /\ op = "none"
    /\ \E query \in GdfsQueries, layers_dict \in LayersDicts, radius \in GdfsRadii,
          ratio \in GdfsRatios, dilate \in GdfsDilates, rotation \in Rotations :
        \E orc \in Oracles(query, Truthy(radius)) :
          \E fetches \in Fetches(layers_dict,
                                 gdfs_perimeter(query, layers_dict, radius, ratio,
                                                dilate, rotation, orc).out) :
            \E r \in {get_gdfs(query, layers_dict, radius, ratio, dilate, rotation,
                              orc, fetches)} :
                /\ op' = "get_gdfs"
                /\ args' = [query |-> query, layers_dict |-> layers_dict,
                            radius |-> radius, ratio |-> ratio, dilate |-> dilate,
                            rotation |-> rotation, orc |-> orc, fetches |-> fetches]
                /\ ret' = r.out
                /\ calls' = r.calls
                /\ after' = r.layers_dict

Next == CallParseQuery \/ CallGetPerimeter \/ CallGetGdf \/ CallGetGdfs

Spec == Init /\ [][Next]_vars

(* ------------------------------- claims ------------------------------- *)
\* A string that is an OSM id: one uppercase letter followed by digits.
IsOsmId(s) ==
    /\ Len(s) >= 2
    /\ s[1] \in UpperCase
    /\ \A i \in 2..Len(s) : s[i] \in Digits

\* C1 (as claimed): parse_query answers 'polygon' for a GeoDataFrame,
\* 'coordinates' for a tuple, 'osmid' for a string that is an OSM id and
\* 'address' for every other string.
C1_Claim ==
    op = "parse_query" =>
        ret = Ok(IF args.query.kind = "GeoDataFrame" THEN "polygon"
                 ELSE IF args.query.kind = "tuple" THEN "coordinates"
                 ELSE IF IsOsmId(args.query.s) THEN "osmid"
                 ELSE "address")

\* C2: whenever get_gdfs returns, the keys of the returned mapping are
\* exactly 'perimeter' and the keys of layers_dict.
C2_KeySet ==
    (op = "get_gdfs" /\ ret.ok) =>
        DOMAIN ret.val = {"perimeter"} \cup Keys(args.layers_dict)

C2_Witness ==
    /\ op = "get_gdfs"
    /\ ret.ok
    /\ "perimeter" \notin Keys(args.layers_dict)
    /\ Len(args.layers_dict) = 2

\* The amount a layer's configuration buffers the perimeter by:
\* dilate (None and absent count as 0) plus perimeter_tolerance.
Amount(kwargs) ==
    (IF "dilate" \in DOMAIN kwargs /\ kwargs["dilate"] # None
     THEN Val(kwargs["dilate"]) ELSE 0)
        + (IF "perimeter_tolerance" \in DOMAIN kwargs
           THEN kwargs["perimeter_tolerance"] ELSE 0)

\* Cell c lies in the perimeter buffered by n: for n >= 0 within distance n
\* of a row of the perimeter, for n < 0 at least -n inside a row.
InBuffered(c, perimeter, n) ==
    \E i \in DOMAIN perimeter.rows :
        IF n >= 0
        THEN \E q \in perimeter.rows[i].geometry :
                Abs(c[1] - q[1]) <= n /\ Abs(c[2] - q[2]) <= n
        ELSE \A a \in n..(-n), b \in n..(-n) :
                <<c[1] + a, c[2] + b>> \in perimeter.rows[i].geometry

\* C3 (as claimed): every geometry of every layer of the returned mapping
\* lies inside the region under its 'perimeter' key.
C3_Claim ==
    (op = "get_gdfs" /\ ret.ok) =>
        \A layer \in DOMAIN ret.val \ {"perimeter"} :
            \A i \in DOMAIN ret.val[layer].rows :
                ret.val[layer].rows[i].geometry \subseteq unary_union(ret.val["perimeter"])

\* C3 (amended): every geometry of every layer of the returned mapping lies
\* inside the returned perimeter buffered by that layer's dilate plus
\* perimeter_tolerance, and inside the perimeter itself when that sum is
\* at most 0.
C3_Amended ==
    (op = "get_gdfs" /\ ret.ok) =>
        \A layer \in DOMAIN ret.val \ {"perimeter"} :
            \A i \in DOMAIN ret.val[layer].rows :
                LET n == Amount(Lookup(args.layers_dict, layer))
                    g == ret.val[layer].rows[i].geometry
                IN  /\ \A c \in g : InBuffered(c, ret.val["perimeter"], n)
                    /\ n <= 0 => g \subseteq unary_union(ret.val["perimeter"])

C3_Witness ==
    /\ op = "get_gdfs"
    /\ ret.ok
    /\ \E layer \in DOMAIN ret.val \ {"perimeter"} :
          /\ Amount(Lookup(args.layers_dict, layer)) > 0
          /\ \E i \in DOMAIN ret.val[layer].rows :
                ~(ret.val[layer].rows[i].geometry
                      \subseteq unary_union(ret.val["perimeter"]))

\* The fetch of a get_gdf call answered with rows, and none of them meets
\* the perimeter buffered by the layer's amount.
EmptyIntersection ==
    /\ op = "get_gdf"
    /\ args.fetch # 0
    /\ FetchedSamples[args.fetch].rows # <<>>
    /\ \A i \in DOMAIN FetchedSamples[args.fetch].rows :
          \A c \in FetchedSamples[args.fetch].rows[i].geometry :
              ~InBuffered(c, args.perimeter, Amount(args.kwargs))

\* C4 (as claimed): when the intersection of the fetched geometries with
\* the perimeter is empty, get_gdf ends in an error.
C4_Claim == EmptyIntersection => ~ret.ok

\* C4 (amended): when the intersection of the fetched geometries with the
\* perimeter is empty, get_gdf of a layer other than 'hillshade' and
\* 'level_curves' returns normally, with a frame that has no rows.
C4_Amended ==
    (EmptyIntersection /\ args.layer \notin {"hillshade", "level_curves"}) =>
        (ret.ok /\ ret.val.rows = <<>>)

C4_Witness ==
    /\ EmptyIntersection
    /\ args.layer = "streets"
    /\ unary_union(args.perimeter) # {}
    /\ ret.ok

\* C5 (as claimed): every perimeter get_perimeter returns is a non-empty
\* region.
C5_Claim ==
    (op = "get_perimeter" /\ ret.ok) => unary_union(ret.val) # {}

\* The region get_perimeter starts from is non-empty by construction.
SourceNonEmpty ==
    IF Truthy(args.radius)
    THEN Val(args.radius) > 0 /\ (args.circle \/ args.ratio # 0)
    ELSE args.query.kind = "GeoDataFrame" => unary_union(args.query.gdf) # {}

\* C5 (amended): every perimeter get_perimeter returns is a non-empty
\* region when dilate is None or at least 0 and the region it starts from
\* is non-empty (radius > 0, with ratio # 0 unless circular; or no radius
\* and a non-empty polygon or a geocoded region).
C5_Amended ==
    (/\ op = "get_perimeter"
     /\ ret.ok
     /\ (args.dilate = None \/ Val(args.dilate) >= 0)
     /\ SourceNonEmpty) => \A i \in DOMAIN ret.val.rows : ret.val.rows[i].geometry # {}

C5_Witness ==
    /\ op = "get_perimeter"
    /\ ret.ok
    /\ args.dilate = Some(1)
    /\ args.query.kind = "GeoDataFrame"
    /\ ~Truthy(args.radius)
    /\ unary_union(ret.val) # {}

\* The position of the first item of layers_dict whose get_gdf fails, 0 if
\* there is none.
Fails(i) ==
    /\ args.layers_dict[i].layer # "perimeter"
    /\ \/ args.layers_dict[i].layer \in {"hillshade", "level_curves"}
       \/ args.fetches[i] = 0

FirstFailure ==
    IF \E i \in DOMAIN args.layers_dict : Fails(i)
    THEN CHOOSE i \in DOMAIN args.layers_dict :
            Fails(i) /\ \A j \in 1..(i - 1) : ~Fails(j)
    ELSE 0

\* The number of layers before position i that are fetched.
FetchedBefore(i) ==
    Cardinality({j \in 1..(i - 1) : args.layers_dict[j].layer # "perimeter"})

\* C6: if building the perimeter fails, get_gdfs ends with that error and
\* fetches no layer; if the fetch of a layer fails, get_gdfs ends with that
\* error, having fetched each earlier layer once, the failing one once and
\* no later one.  It returns a mapping only when nothing failed.
C6_NoPartialResult ==
    op = "get_gdfs" =>
        LET p == gdfs_perimeter(args.query, args.layers_dict, args.radius,
                                args.ratio, args.dilate, args.rotation, args.orc)
            k == FirstFailure
        IN  /\ ~p.out.ok => (ret = p.out /\ calls = p.calls)
            /\ (p.out.ok /\ k # 0) =>
                  /\ ~ret.ok
                  /\ ret.err = IF args.fetches[k] = 0
                                  /\ args.layers_dict[k].layer \notin {"hillshade", "level_curves"}
                               THEN "fetch" ELSE "NameError"
                  /\ Len(calls) = Len(p.calls) + FetchedBefore(k)
                                    + (IF ret.err = "fetch" THEN 1 ELSE 0)
            /\ ret.ok <=> (p.out.ok /\ k = 0)

C6_Witness ==
    /\ op = "get_gdfs"
    /\ ~ret.ok
    /\ ret.err = "fetch"
    /\ FirstFailure = 2
    /\ Len(args.layers_dict) = 2
    /\ "perimeter" \notin Keys(args.layers_dict)

\* C7 (as claimed): get_gdf of 'hillshade' or 'level_curves' does not fail
\* inside this module.
C7_Claim ==
    (op = "get_gdf" /\ args.layer \in {"hillshade", "level_curves"}) =>
        (ret.ok \/ ret.err # "NameError")

\* The part of a fetched geometry inside the perimeter buffered by the
\* configured amount.
Clipped(g) == {c \in g : InBuffered(c, args.perimeter, Amount(args.kwargs))}

\* C8: whenever get_gdf returns, no row of the result is empty; each row is
\* a fetched row, its geometry cut to the perimeter buffered by dilate (None
\* as 0) plus perimeter_tolerance; the rows keep their order and a fetched
\* row is missing exactly when its cut is empty.
C8_Clip ==
    (op = "get_gdf" /\ ret.ok) =>
        LET fetched == FetchedSamples[args.fetch].rows
            kept == SelectSeq(fetched, LAMBDA f : Clipped(f.geometry) # {})
        IN  /\ \A i \in DOMAIN ret.val.rows : ret.val.rows[i].geometry # {}
            /\ Len(ret.val.rows) = Len(kept)
            /\ \A i \in DOMAIN ret.val.rows :
                  /\ ret.val.rows[i].idx = kept[i].idx
                  /\ ret.val.rows[i].geometry = Clipped(kept[i].geometry)

C8_Witness ==
    /\ op = "get_gdf"
    /\ ret.ok
    /\ "dilate" \in DOMAIN args.kwargs
    /\ args.kwargs["dilate"] = None
    /\ Amount(args.kwargs) = 1
    /\ Len(ret.val.rows) > 0
    /\ Len(ret.val.rows) < Len(FetchedSamples[args.fetch].rows)
    /\ \E i \in DOMAIN ret.val.rows :
          ~(ret.val.rows[i].geometry \subseteq unary_union(args.perimeter))

\* The geocoder calls of get_perimeter when `boundary` says that the
\* boundary branch is taken.
PerimeterCalls(boundary) ==
    IF boundary
    THEN IF args.query.kind = "tuple" THEN <<>> ELSE <<"geocode">>
    ELSE IF args.query.kind = "GeoDataFrame" THEN <<>> ELSE <<"geocode_to_gdf">>

\* C9 (as claimed): with a radius given, 0 included, get_perimeter builds a
\* boundary around the query's point (geocoding it unless it is a coordinates
\* query); with no radius it uses a polygon query as it is and resolves any
\* other query through the geocoder.
C9_Claim ==
    op = "get_perimeter" => calls = PerimeterCalls(args.radius # None)

\* C9 (amended): get_perimeter builds a boundary exactly when radius is
\* neither None nor 0; a radius of 0 is handled as no radius.  A polygon
\* query with no radius and no dilation is returned as it is.
C9_Amended ==
    op = "get_perimeter" =>
        /\ calls = PerimeterCalls(args.radius # None /\ args.radius # Some(0))
        /\ (/\ args.query.kind = "GeoDataFrame"
            /\ (args.radius = None \/ args.radius = Some(0))
            /\ args.dilate = None) => ret = Ok(args.query.gdf)

C9_Witness ==
    /\ op = "get_perimeter"
    /\ args.radius = Some(0)
    /\ args.query.kind = "str"
    /\ calls = <<"geocode_to_gdf">>
    /\ ret.ok

\* C10 (as claimed): get_gdfs leaves layers_dict unchanged, does not fail on
\* a 'perimeter' configuration with or without a 'dilate' entry, and dilates
\* the perimeter by its dilate argument.
C10_Claim ==
    op = "get_gdfs" =>
        /\ after = args.layers_dict
        /\ ret.ok \/ ret.err # "KeyError"
        /\ ret.ok =>
              ret.val["perimeter"] =
                  get_perimeter(args.query, args.radius, args.ratio, FALSE,
                                "perimeter" \in Keys(args.layers_dict)
                                   /\ Get(Lookup(args.layers_dict, "perimeter"),
                                          "circle", FALSE),
                                args.dilate, args.rotation, args.orc).out.val
====
